---- MODULE Spec2Model ----
(***************************************************************************)
(* A model of the blackjack round engine of calclb/blackjack.              *)
(*                                                                         *)
(*   src/src/main.rs  the binary: main(), play(), simulate_turn(),         *)
(*                    prompt_player(), prompt_dealer(hand), Outcome,       *)
(*                    get_outcome, face_val, hand_val, round_decimal       *)
(*   src/src/lib.rs   the library copies of the same helpers, with         *)
(*                    prompt_dealer(hand, score_to_beat)                   *)
(*                                                                         *)
(* Money is counted in whole cents.  The code keeps f64 dollars and        *)
(* rounds with round_decimal(x, 2); every amount it rounds is a multiple   *)
(* of 0.2 cent (bet, bet * 0.6, bet * 0.6 * 2 with bet a whole number of   *)
(* cents), so it is never within 0.1 cent of a rounding tie and the f64    *)
(* result equals the exactly rounded one.  round_decimal below is that     *)
(* exact rounding (f64::round: half away from zero) on a fraction of       *)
(* cents.                                                                  *)
(***************************************************************************)
EXTENDS Integers, Sequences, FiniteSets, TLC

\* ------------------------------------------------------------------------
\* Program constants
\* ------------------------------------------------------------------------
BUST_THRESHOLD == 21
DEALER_STAND_THRESHOLD == 18
\* WIN_MULTIPLIER = 0.6, kept as the fraction 6 / 10
WIN_MULTIPLIER_NUM == 6
WIN_MULTIPLIER_DEN == 10
DOUBLE_DOWN_MULTIPLIER == 2
\* let num_decks: usize = 4; Deck::make_decks(num_decks)
num_decks == 4
\* a standard deck holds one card of each face in each of its four suits
SUITS_PER_DECK == 4
\* let mut winnings: f64 = 100.; in cents
initial_winnings == 10000
\* "You must enter at least a cent!": *uinput >= 0.01, in cents
MIN_BET == 1
\* (winnings + change_in_winnings).max(0.01), in cents
MIN_WINNINGS == 1

\* ------------------------------------------------------------------------
\* Bounds of the model
\* ------------------------------------------------------------------------
\* how many of the thirteen faces (in FaceOrder) a shuffle brings to the top
\* of the shoe during the modelled round
NumFaces == 3
\* bets range over 1 .. MaxBet cents
MaxBet == 5
\* failed reads of the player's decision that are retried in one round
MaxPromptErrs == 1
\* longest hand handed to hand_val / get_outcome in SpecVal
MaxHandLen == 4
\* longest hand handed to the dealer policies in SpecDealer
MaxDealerLen == 3
MaxHolding == 22
NumStarts == 6
NumStrides == 5
\* the amounts typed at the bet prompt are multiples of 1/InputsPerCent cent
InputsPerCent == 10
\* SpecShoe: the player leaves once the balance is further than this from
\* initial_winnings
MaxSwing == 3
\* SpecBank: the player leaves once this many cards of the shoe are dealt
MaxBankDealt == 12

\* ------------------------------------------------------------------------
\* Cards
\* ------------------------------------------------------------------------
\* cardy::face::Face
Face ==
    {"Ace", "Two", "Three", "Four", "Five", "Six", "Seven", "Eight", "Nine",
     "Ten", "Jack", "Queen", "King"}

FaceOrder ==
    <<"Ace", "King", "Seven", "Five", "Two", "Nine", "Eight", "Queen",
      "Three", "Four", "Six", "Ten", "Jack">>

\* the faces a shuffle may bring to the top of the shoe in Spec
TopFaces == {FaceOrder[i] : i \in 1..(IF NumFaces < 13 THEN NumFaces ELSE 13)}

\* enum Decision { Hit, Stand }
Decision == {"Hit", "Stand"}

\* enum Outcome { Holding(usize), Bust }
Holding(n) == [kind |-> "Holding", total |-> n]
Bust == [kind |-> "Bust", total |-> 0]
\* the value of an Outcome variable that has not been assigned yet
NoOutcome == [kind |-> "None", total |-> 0]

\* ------------------------------------------------------------------------
\* Pure functions
\* ------------------------------------------------------------------------
\* a plausible slip: the ace is demoted only from a running total above 11
face_val_ace_boundary(sum, face) ==
    CASE face = "Ace" /\ sum > 11 -> 1
      [] face = "Ace" -> 11
      [] face \in {"King", "Queen", "Jack", "Ten"} -> 10
      [] face = "Nine" -> 9
      [] face = "Eight" -> 8
      [] face = "Seven" -> 7
      [] face = "Six" -> 6
      [] face = "Five" -> 5
      [] face = "Four" -> 4
      [] face = "Three" -> 3
      [] face = "Two" -> 2

face_val(sum, face) ==
    CASE face = "Ace" /\ sum > 10 -> 1
      [] face = "Ace" -> 11
      [] face \in {"King", "Queen", "Jack", "Ten"} -> 10
      [] face = "Nine" -> 9
      [] face = "Eight" -> 8
      [] face = "Seven" -> 7
      [] face = "Six" -> 6
      [] face = "Five" -> 5
      [] face = "Four" -> 4
      [] face = "Three" -> 3
      [] face = "Two" -> 2

\* the fold of hand_val from the i-th card on, with accumulator acc
RECURSIVE hand_fold(_, _, _)
hand_fold(cards, i, acc) ==
    IF i > Len(cards) THEN acc
    ELSE hand_fold(cards, i + 1, acc + face_val(acc, cards[i]))

\* hand.cards().iter().fold(0, |acc, card| acc + face_val(acc, card.face))
hand_val(hand) == hand_fold(hand, 1, 0)

get_outcome(hand) ==
    IF hand_val(hand) > BUST_THRESHOLD THEN Bust ELSE Holding(hand_val(hand))

\* a plausible slip: the two mixed arms swapped, Bust above every Holding
cmp_bust_on_top(a, b) ==
    CASE a.kind = "Bust" /\ b.kind = "Bust" -> "Equal"
      [] a.kind = "Holding" /\ b.kind = "Bust" -> "Less"
      [] a.kind = "Bust" /\ b.kind = "Holding" -> "Greater"
      [] OTHER -> IF a.total < b.total THEN "Less"
                  ELSE IF a.total = b.total THEN "Equal" ELSE "Greater"

\* a plausible slip: the totals compared the wrong way round (v2.cmp(v1))
cmp_reversed(a, b) ==
    CASE a.kind = "Bust" /\ b.kind = "Bust" -> "Equal"
      [] a.kind = "Holding" /\ b.kind = "Bust" -> "Greater"
      [] a.kind = "Bust" /\ b.kind = "Holding" -> "Less"
      [] OTHER -> IF b.total < a.total THEN "Less"
                  ELSE IF a.total = b.total THEN "Equal" ELSE "Greater"

\* impl Ord for Outcome: "Less", "Equal" or "Greater"
cmp(a, b) ==
    CASE a.kind = "Bust" /\ b.kind = "Bust" -> "Equal"
      [] a.kind = "Holding" /\ b.kind = "Bust" -> "Greater"
      [] a.kind = "Bust" /\ b.kind = "Holding" -> "Less"
      [] OTHER -> IF a.total < b.total THEN "Less"
                  ELSE IF a.total = b.total THEN "Equal" ELSE "Greater"

\* a plausible slip: the fraction of a cent cut off (trunc() for round())
round_decimal_truncating(n, d) ==
    IF n >= 0 THEN n \div d ELSE -((-n) \div d)

\* a plausible slip: rounded to one decimal place, to the nearest 10 cents
round_decimal_one_place(n, d) ==
    IF n >= 0 THEN 10 * ((2 * n + 10 * d) \div (20 * d))
    ELSE -(10 * ((2 * (-n) + 10 * d) \div (20 * d)))

\* round_decimal(n / d cents): (decimal * 100).round() / 100, in cents;
\* f64::round rounds half away from zero.  d > 0.
round_decimal(n, d) ==
    IF n >= 0 THEN (2 * n + d) \div (2 * d)
    ELSE -((2 * (-n) + d) \div (2 * d))

\* a plausible slip: the dealer stands one point early, on 17
prompt_dealer_stands_on_17(hand) ==
    IF hand_val(hand) < DEALER_STAND_THRESHOLD - 1 THEN "Hit" ELSE "Stand"

\* main.rs prompt_dealer(hand): the fixed-threshold policy play() calls
prompt_dealer(hand) ==
    IF hand_val(hand) < DEALER_STAND_THRESHOLD THEN "Hit" ELSE "Stand"

\* a plausible slip: the dealer stands only above the threshold
lib_prompt_dealer_strict(hand, score_to_beat) ==
    IF hand_val(hand) > DEALER_STAND_THRESHOLD \/ hand_val(hand) > score_to_beat
    THEN "Stand" ELSE "Hit"

\* lib.rs prompt_dealer(hand, score_to_beat)
lib_prompt_dealer(hand, score_to_beat) ==
    IF hand_val(hand) >= DEALER_STAND_THRESHOLD \/ hand_val(hand) > score_to_beat
    THEN "Stand" ELSE "Hit"

\* a plausible slip: the double-down multiplier left out
multiplier_left_out(dd) == 1

\* if is_doubling_down {DOUBLE_DOWN_MULTIPLIER} else {1.}
multiplier(dd) == IF dd THEN DOUBLE_DOWN_MULTIPLIER ELSE 1


\* ------------------------------------------------------------------------
\* State of one round: main() has read the bet and calls play(bet, &mut deck)
\* ------------------------------------------------------------------------
VARIABLES
    pc,               \* position in play()
    deck,             \* the shoe: undealt cards of each face
    dealt_count,      \* deck.dealt_count()
    bet,              \* play's argument, in cents
    player_hand,      \* sequence of faces
    dealer_hand,      \* sequence of faces
    dealer_hidden,    \* the dealer's second card lies face down
    is_doubling_down, \* the answer to confirm(..)
    player_outcome,   \* let player_outcome = ..
    dealer_outcome,   \* let dealer_outcome = ..
    delta,            \* the value play() returns, in cents
    result,           \* the closing message play() prints
    dd_asked,         \* calls of confirm(..) so far
    prompts,          \* decisions prompt_player() has returned so far
    prompt_errs,      \* failed reads inside prompt_player() so far
    player_turns,     \* decisions applied to the player's hand by simulate_turn
    dealer_turns,     \* decisions applied to the dealer's hand by simulate_turn
    last_outcome,     \* the Outcome the latest simulate_turn returned
    replaced,         \* main(): the shoe was reset and shuffled for this round
    shuffled,         \* SpecShoe: the order the last shuffle gave the shoe
    winnings,         \* main(): the player's balance, in cents
    donated,          \* main(): "You were donated a cent from charity."
    eval_hand,        \* SpecVal / SpecDealer: the hand under evaluation
    eval_sum,         \* SpecVal: hand_val(eval_hand)
    eval_outcome,     \* SpecVal: get_outcome(eval_hand)
    score_to_beat,    \* SpecDealer: the second argument of lib.rs prompt_dealer
    decision,         \* SpecDealer: what lib.rs prompt_dealer returned
    decision_main,    \* SpecDealer: what main.rs prompt_dealer returned
    ox,               \* SpecOrd: an Outcome
    oy,               \* SpecOrd: an Outcome
    oz,               \* SpecOrd: an Outcome
    ord               \* SpecOrd: the Orderings cmp returned for ox, oy, oz

round_vars ==
    <<pc, deck, dealt_count, bet, player_hand, dealer_hand, dealer_hidden,
      is_doubling_down, player_outcome, dealer_outcome, delta, result,
      dd_asked, prompts, prompt_errs, player_turns, dealer_turns,
      last_outcome, replaced, shuffled, winnings, donated>>

fn_vars ==
    <<eval_hand, eval_sum, eval_outcome, score_to_beat, decision,
      decision_main, ox, oy, oz, ord>>

vars == <<round_vars, fn_vars>>

\* Deck::make_decks(num_decks): every face num_decks * 4 times
make_decks == [f \in Face |-> num_decks * SUITS_PER_DECK]

RECURSIVE count_cards(_, _)
count_cards(d, faces) ==
    IF faces = {} THEN 0
    ELSE LET f == CHOOSE x \in faces : TRUE
         IN d[f] + count_cards(d, faces \ {f})

\* deck.undealt_count()
undealt_count(d) == count_cards(d, Face)

\* the bets, in cents: the smallest ones, and the 10.00 of the spec's example
Bets == (1..MaxBet) \cup {1000}

\* the order of the shoe left open: every deal picks the face of its card
AnyOrder == [start |-> 0, stride |-> 0]

\* enum Outcome { Holding(usize), Bust }, the totals up to MaxHolding
Outcomes == {Bust} \cup {Holding(n) : n \in 0..MaxHolding}

\* no comparison made yet
NoOrd ==
    [xx |-> "None", xy |-> "None", yx |-> "None", yz |-> "None",
     zy |-> "None", xz |-> "None", zx |-> "None"]

\* the values the function-level variables keep while a round is played
FnIdle ==
    /\ eval_hand = <<>>
    /\ eval_sum = 0
    /\ eval_outcome = NoOutcome
    /\ score_to_beat = 0
    /\ decision = "None"
    /\ decision_main = "None"
    /\ ox = NoOutcome
    /\ oy = NoOutcome
    /\ oz = NoOutcome
    /\ ord = NoOrd

\* the values the round's variables keep while a pure function is exercised
RoundIdle ==
    /\ pc = "idle"
    /\ deck = make_decks
    /\ dealt_count = 0
    /\ bet = 1
    /\ player_hand = <<>>
    /\ dealer_hand = <<>>
    /\ dealer_hidden = FALSE
    /\ is_doubling_down = FALSE
    /\ player_outcome = NoOutcome
    /\ dealer_outcome = NoOutcome
    /\ delta = 0
    /\ result = "none"
    /\ dd_asked = 0
    /\ prompts = 0
    /\ prompt_errs = 0
    /\ player_turns = <<>>
    /\ dealer_turns = <<>>
    /\ last_outcome = NoOutcome
    /\ replaced = FALSE
    /\ shuffled = AnyOrder
    /\ winnings = initial_winnings
    /\ donated = FALSE

\* main(): a fresh shuffled shoe, a bet of at least a cent; play() starts
Init ==
    /\ pc = "deal_dealer"
    /\ deck = make_decks
    /\ dealt_count = 0
    /\ bet \in Bets
    /\ player_hand = <<>>
    /\ dealer_hand = <<>>
    /\ dealer_hidden = FALSE
    /\ is_doubling_down = FALSE
    /\ player_outcome = NoOutcome
    /\ dealer_outcome = NoOutcome
    /\ delta = 0
    /\ result = "none"
    /\ dd_asked = 0
    /\ prompts = 0
    /\ prompt_errs = 0
    /\ player_turns = <<>>
    /\ dealer_turns = <<>>
    /\ last_outcome = NoOutcome
    /\ replaced = FALSE
    /\ shuffled = AnyOrder
    /\ winnings = initial_winnings
    /\ donated = FALSE
    /\ FnIdle

\* deck.deal_one() returning Some(card of face f): the shuffle decides f
deal_one(f) ==
    /\ deck[f] > 0
    /\ deck' = [deck EXCEPT ![f] = @ - 1]
    /\ dealt_count' = dealt_count + 1

\* play(), lines 139-156: one pass of the dealer's dealing loop
DealDealer(faces) ==
    /\ pc = "deal_dealer"
    /\ IF undealt_count(deck) = 0
       THEN /\ pc' = "panic"
            /\ UNCHANGED <<deck, dealt_count, dealer_hand, dealer_hidden>>
       ELSE \E f \in faces :
            LET i == Len(dealer_hand)
                hand_sum == hand_val(dealer_hand)
                is_blackjack == hand_sum + face_val(hand_sum, f) = 21
            IN /\ deal_one(f)
               /\ dealer_hidden' = (i = 1 /\ ~is_blackjack)
               /\ dealer_hand' = Append(dealer_hand, f)
               /\ pc' = IF i = 1 THEN "deal_player" ELSE "deal_dealer"
    /\ UNCHANGED <<bet, player_hand, is_doubling_down, player_outcome,
                   dealer_outcome, delta, result, dd_asked, prompts,
                   prompt_errs, player_turns, dealer_turns>>
    /\ UNCHANGED fn_vars
    /\ UNCHANGED <<last_outcome, replaced, shuffled, winnings, donated>>

\* play(), lines 160-174: one pass of the player's dealing loop
DealPlayer(faces) ==
    /\ pc = "deal_player"
    /\ IF undealt_count(deck) = 0
       THEN /\ pc' = "panic"
            /\ UNCHANGED <<deck, dealt_count, player_hand>>
       ELSE \E f \in faces :
            /\ deal_one(f)
            /\ player_hand' = Append(player_hand, f)
            /\ pc' = IF Len(player_hand) = 1 THEN "check_blackjacks"
                     ELSE "deal_player"
    /\ UNCHANGED <<bet, dealer_hand, dealer_hidden, is_doubling_down,
                   player_outcome, dealer_outcome, delta, result, dd_asked,
                   prompts, prompt_errs, player_turns, dealer_turns>>
    /\ UNCHANGED fn_vars
    /\ UNCHANGED <<last_outcome, replaced, shuffled, winnings, donated>>

\* a plausible slip: the (21, _) arm written before the (21, 21) arm
blackjack_arm_player_first(p, d) ==
    CASE p = 21 -> "player_blackjack"
      [] p # 21 /\ d = 21 -> "dealer_blackjack"
      [] OTHER -> "none"

\* play(), lines 177-191: the arm that
\* match (hand_val(&player_hand), hand_val(&dealer_hand)) takes
blackjack_arm(p, d) ==
    CASE p = 21 /\ d = 21 -> "both_blackjack"
      [] p = 21 /\ d # 21 -> "player_blackjack"
      [] p # 21 /\ d = 21 -> "dealer_blackjack"
      [] OTHER -> "none"

\* play(), lines 177-191: the check for blackjacks and its three returns
CheckBlackjacks ==
    /\ pc = "check_blackjacks"
    /\ LET arm == blackjack_arm(hand_val(player_hand), hand_val(dealer_hand))
       IN CASE arm = "both_blackjack" ->
                 /\ delta' = 0
                 /\ result' = arm
                 /\ pc' = "done"
            [] arm = "player_blackjack" ->
                 /\ delta' = round_decimal(bet * WIN_MULTIPLIER_NUM,
                                           WIN_MULTIPLIER_DEN)
                 /\ result' = arm
                 /\ pc' = "done"
            [] arm = "dealer_blackjack" ->
                 /\ delta' = round_decimal(-bet, 1)
                 /\ result' = arm
                 /\ pc' = "done"
            [] OTHER ->
                 /\ pc' = "confirm"
                 /\ UNCHANGED <<delta, result>>
    /\ UNCHANGED <<deck, dealt_count, bet, player_hand, dealer_hand,
                   dealer_hidden, is_doubling_down, player_outcome,
                   dealer_outcome, dd_asked, prompts, prompt_errs,
                   player_turns, dealer_turns>>
    /\ UNCHANGED fn_vars
    /\ UNCHANGED <<last_outcome, replaced, shuffled, winnings, donated>>

\* a plausible slip: a "no" is not taken at once, the question is put again
ConfirmDoubleDown_asks_again ==
    /\ pc = "confirm"
    /\ \E answer \in BOOLEAN :
         /\ is_doubling_down' = answer
         /\ pc' = IF answer THEN "double_hit" ELSE "hitting"
         /\ dd_asked' = dd_asked + (IF answer THEN 1 ELSE 2)
    /\ UNCHANGED <<deck, dealt_count, bet, player_hand, dealer_hand,
                   dealer_hidden, player_outcome, dealer_outcome, delta,
                   result, prompts, prompt_errs, player_turns, dealer_turns>>
    /\ UNCHANGED fn_vars
    /\ UNCHANGED <<last_outcome, replaced, shuffled, winnings, donated>>

\* a plausible slip: the answer doubles the wager but the player still plays
\* the hit/stand loop
ConfirmDoubleDown_still_prompts ==
    /\ pc = "confirm"
    /\ \E answer \in BOOLEAN :
         /\ is_doubling_down' = answer
         /\ pc' = "hitting"
    /\ dd_asked' = dd_asked + 1
    /\ UNCHANGED <<deck, dealt_count, bet, player_hand, dealer_hand,
                   dealer_hidden, player_outcome, dealer_outcome, delta,
                   result, prompts, prompt_errs, player_turns, dealer_turns>>
    /\ UNCHANGED fn_vars
    /\ UNCHANGED <<last_outcome, replaced, shuffled, winnings, donated>>

\* play(), line 195: confirm("Would you like to double down? ..")
ConfirmDoubleDown ==
    /\ pc = "confirm"
    /\ \E answer \in BOOLEAN :
         /\ is_doubling_down' = answer
         /\ pc' = IF answer THEN "double_hit" ELSE "hitting"
    /\ dd_asked' = dd_asked + 1
    /\ UNCHANGED <<deck, dealt_count, bet, player_hand, dealer_hand,
                   dealer_hidden, player_outcome, dealer_outcome, delta,
                   result, prompts, prompt_errs, player_turns, dealer_turns>>
    /\ UNCHANGED fn_vars
    /\ UNCHANGED <<last_outcome, replaced, shuffled, winnings, donated>>


\* a plausible slip: the win pays the whole bet, WIN_MULTIPLIER left out
win_change_whole_bet(b, dd) == round_decimal(b * multiplier(dd), 1)

\* bet * WIN_MULTIPLIER * if is_doubling_down {DOUBLE_DOWN_MULTIPLIER} else {1.},
\* rounded: the amount won (lines 258 and 276)
win_change(b, dd) ==
    round_decimal(b * WIN_MULTIPLIER_NUM * multiplier(dd), WIN_MULTIPLIER_DEN)

\* a plausible slip: the loss of a doubled round charged once
loss_change_single(b, dd) == round_decimal(-b, 1)

\* -bet * if is_doubling_down {DOUBLE_DOWN_MULTIPLIER} else {1.}, rounded:
\* the amount lost (lines 226 and 280)
loss_change(b, dd) == round_decimal(-b * multiplier(dd), 1)

\* a plausible slip: the card dealt is put in front of the hand
simulate_turn_card_in_front(h, h_after, dec, f) ==
    /\ IF dec = "Hit"
       THEN /\ deal_one(f)
            /\ h_after = <<f>> \o h
       ELSE /\ h_after = h
            /\ UNCHANGED <<deck, dealt_count>>
    /\ last_outcome' = get_outcome(h_after)

\* a plausible slip: the card is dealt but never pushed to the hand
simulate_turn_card_not_pushed(h, h_after, dec, f) ==
    /\ IF dec = "Hit"
       THEN /\ deal_one(f)
            /\ h_after = h
       ELSE /\ h_after = h
            /\ UNCHANGED <<deck, dealt_count>>
    /\ last_outcome' = get_outcome(h_after)

\* simulate_turn(deck, hand, decision) with the shoe not exhausted: h is the
\* hand before the call, h_after the hand after it, f the face on top of the
\* shoe; the Outcome it returns is get_outcome(h_after)
simulate_turn(h, h_after, dec, f) ==
    /\ IF dec = "Hit"
       THEN /\ deal_one(f)
            /\ h_after = Append(h, f)
       ELSE /\ h_after = h
            /\ UNCHANGED <<deck, dealt_count>>
    /\ last_outcome' = get_outcome(h_after)

\* no card: a Stand does not look at the shoe
NoCard == "none"

\* the faces the card simulate_turn looks at may have: for a Hit one of the
\* faces the shuffle may have brought to the top
top_card(dec, faces) == IF dec = "Hit" THEN faces ELSE {NoCard}

\* simulate_turn(.., Decision::Hit) finds the shoe empty
hit_panics(dec) == dec = "Hit" /\ undealt_count(deck) = 0

\* play(), lines 203-206: the forced Hit of a double-down
DoubleDownHit(faces) ==
    /\ pc = "double_hit"
    /\ IF hit_panics("Hit")
       THEN /\ pc' = "panic"
            /\ UNCHANGED <<deck, dealt_count, player_hand, player_turns,
                           player_outcome, last_outcome>>
       ELSE \E f \in faces :
              /\ simulate_turn(player_hand, player_hand', "Hit", f)
              /\ player_turns' = Append(player_turns, "Hit")
              /\ LET first_turn_outcome == last_outcome'
                 IN IF first_turn_outcome = Bust
                    THEN /\ player_outcome' = first_turn_outcome
                         /\ pc' = "player_done"
                    ELSE /\ pc' = "double_stand"
                         /\ UNCHANGED player_outcome
    /\ UNCHANGED <<bet, dealer_hand, dealer_hidden, is_doubling_down,
                   dealer_outcome, delta, result, dd_asked, prompts,
                   prompt_errs, dealer_turns>>
    /\ UNCHANGED fn_vars
    /\ UNCHANGED <<replaced, shuffled, winnings, donated>>

\* play(), lines 207-209: the forced Stand of a double-down
DoubleDownStand ==
    /\ pc = "double_stand"
    /\ simulate_turn(player_hand, player_hand', "Stand", NoCard)
    /\ player_turns' = Append(player_turns, "Stand")
    /\ player_outcome' = last_outcome'
    /\ pc' = "player_done"
    /\ UNCHANGED <<bet, dealer_hand, dealer_hidden, is_doubling_down,
                   dealer_outcome, delta, result, dd_asked, prompts,
                   prompt_errs, dealer_turns>>
    /\ UNCHANGED fn_vars
    /\ UNCHANGED <<replaced, shuffled, winnings, donated>>

\* a plausible slip: a failed read is taken for a Stand and ends the turn
PromptPlayerErr_gives_up ==
    /\ pc = "hitting"
    /\ prompt_errs < MaxPromptErrs
    /\ prompt_errs' = prompt_errs + 1
    /\ player_outcome' = get_outcome(player_hand)
    /\ pc' = "player_done"
    /\ UNCHANGED <<deck, dealt_count, bet, player_hand, dealer_hand,
                   dealer_hidden, is_doubling_down, dealer_outcome, delta,
                   result, dd_asked, prompts, player_turns, dealer_turns>>
    /\ UNCHANGED fn_vars
    /\ UNCHANGED <<last_outcome, replaced, shuffled, winnings, donated>>

\* prompt_player(), Err(e) arm: the read failed, the loop asks again
PromptPlayerErr ==
    /\ pc = "hitting"
    /\ prompt_errs < MaxPromptErrs
    /\ prompt_errs' = prompt_errs + 1
    /\ UNCHANGED <<pc, deck, dealt_count, bet, player_hand, dealer_hand,
                   dealer_hidden, is_doubling_down, player_outcome,
                   dealer_outcome, delta, result, dd_asked, prompts,
                   player_turns, dealer_turns>>
    /\ UNCHANGED fn_vars
    /\ UNCHANGED <<last_outcome, replaced, shuffled, winnings, donated>>

\* play(), lines 212-220: prompt_player() returns resp, simulate_turn applies it
PlayerTurn(faces) ==
    /\ pc = "hitting"
    /\ \E resp \in Decision :
         /\ prompts' = prompts + 1
         /\ IF hit_panics(resp)
            THEN /\ pc' = "panic"
                 /\ UNCHANGED <<deck, dealt_count, player_hand, player_turns,
                                player_outcome, last_outcome>>
            ELSE \E f \in top_card(resp, faces) :
                   /\ simulate_turn(player_hand, player_hand', resp, f)
                   /\ player_turns' = Append(player_turns, resp)
                   /\ LET turn_outcome == last_outcome'
                      IN IF resp = "Stand" \/ turn_outcome = Bust
                         THEN /\ player_outcome' = turn_outcome
                              /\ pc' = "player_done"
                         ELSE /\ pc' = "hitting"
                              /\ UNCHANGED player_outcome
    /\ UNCHANGED <<bet, dealer_hand, dealer_hidden, is_doubling_down,
                   dealer_outcome, delta, result, dd_asked, prompt_errs,
                   dealer_turns>>
    /\ UNCHANGED fn_vars
    /\ UNCHANGED <<replaced, shuffled, winnings, donated>>

\* play(), lines 224-243: a bust ends the round, otherwise the dealer's
\* second card is turned face up
AfterPlayerTurn ==
    /\ pc = "player_done"
    /\ IF player_outcome = Bust
       THEN /\ delta' = loss_change(bet, is_doubling_down)
            /\ result' = "player_bust"
            /\ pc' = "done"
            /\ UNCHANGED dealer_hidden
       ELSE /\ dealer_hidden' = FALSE
            /\ pc' = "dealer_turn"
            /\ UNCHANGED <<delta, result>>
    /\ UNCHANGED <<deck, dealt_count, bet, player_hand, dealer_hand,
                   is_doubling_down, player_outcome, dealer_outcome,
                   dd_asked, prompts, prompt_errs, player_turns,
                   dealer_turns>>
    /\ UNCHANGED fn_vars
    /\ UNCHANGED <<last_outcome, replaced, shuffled, winnings, donated>>

\* play(), lines 245-253: one pass of the dealer's loop
DealerTurn(faces) ==
    /\ pc = "dealer_turn"
    /\ LET resp == prompt_dealer(dealer_hand)
       IN IF hit_panics(resp)
          THEN /\ pc' = "panic"
               /\ UNCHANGED <<deck, dealt_count, dealer_hand, dealer_turns,
                              dealer_outcome, last_outcome>>
          ELSE \E f \in top_card(resp, faces) :
                 /\ simulate_turn(dealer_hand, dealer_hand', resp, f)
                 /\ dealer_turns' = Append(dealer_turns, resp)
                 /\ LET turn_outcome == last_outcome'
                    IN IF resp = "Stand" \/ turn_outcome = Bust
                       THEN /\ dealer_outcome' = turn_outcome
                            /\ pc' = "dealer_done"
                       ELSE /\ pc' = "dealer_turn"
                            /\ UNCHANGED dealer_outcome
    /\ UNCHANGED <<bet, player_hand, dealer_hidden, is_doubling_down,
                   player_outcome, delta, result, dd_asked, prompts,
                   prompt_errs, player_turns>>
    /\ UNCHANGED fn_vars
    /\ UNCHANGED <<replaced, shuffled, winnings, donated>>

\* play(), lines 256-283: the dealer's bust, or the comparison of the outcomes
Settle ==
    /\ pc = "dealer_done"
    /\ IF dealer_outcome = Bust
       THEN /\ delta' = win_change(bet, is_doubling_down)
            /\ result' = "dealer_bust"
       ELSE LET ordering == cmp(player_outcome, dealer_outcome)
                change ==
                    CASE ordering = "Equal" -> 0
                      [] ordering = "Greater" ->
                           win_change(bet, is_doubling_down)
                      [] ordering = "Less" ->
                           loss_change(bet, is_doubling_down)
            IN /\ delta' = round_decimal(change, 1)
               /\ result' = CASE ordering = "Equal" -> "draw"
                              [] ordering = "Greater" -> "won"
                              [] ordering = "Less" -> "lost"
    /\ pc' = "done"
    /\ UNCHANGED <<deck, dealt_count, bet, player_hand, dealer_hand,
                   dealer_hidden, is_doubling_down, player_outcome,
                   dealer_outcome, dd_asked, prompts, prompt_errs,
                   player_turns, dealer_turns>>
    /\ UNCHANGED fn_vars
    /\ UNCHANGED <<last_outcome, replaced, shuffled, winnings, donated>>

Next ==
    \/ DealDealer(TopFaces)
    \/ DealPlayer(TopFaces)
    \/ CheckBlackjacks
    \/ ConfirmDoubleDown
    \/ DoubleDownHit(TopFaces)
    \/ DoubleDownStand
    \/ PromptPlayerErr
    \/ PlayerTurn(TopFaces)
    \/ AfterPlayerTurn
    \/ DealerTurn(TopFaces)
    \/ Settle

Spec == Init /\ [][Next]_vars

\* a plausible slip: the shoe is replaced only when more than half is dealt
should_replace_strict(dealt, undealt) == 2 * dealt > dealt + undealt

\* a plausible slip: the shoe is replaced only at exactly half dealt
should_replace_at_half_only(dealt, undealt) == 2 * dealt = dealt + undealt

\* main(), line 99: dealt_count >= DECK_REPLACEMENT_THRESHOLD * (undealt_count
\* + dealt_count), the threshold being 0.5 (line 25)
should_replace(dealt, undealt) == 2 * dealt >= dealt + undealt

\* deck.shuffle(): the orders a shuffle may give the shoe.  The card dealt
\* n-th (from 0) has the face start + stride * n of FaceOrder, counted round
\* the 13 faces: every face comes num_decks * 4 times in the 208 cards
Shuffles ==
    [start : 0..((IF NumStarts < 13 THEN NumStarts ELSE 13) - 1),
     stride : 1..(IF NumStrides < 12 THEN NumStrides ELSE 12)]

\* the face of the card on top of the shoe when n cards have been dealt
top_face(sh, n) == FaceOrder[((sh.start + sh.stride * n) % Len(FaceOrder)) + 1]

\* the faces the next card of the shoe may have
shoe_faces == {top_face(shuffled, dealt_count)}

\* main() before its loop: the balance is set, the shoe made and shuffled
InitShoe ==
    /\ pc = "main_top"
    /\ deck = make_decks
    /\ dealt_count = 0
    /\ bet = 1
    /\ player_hand = <<>>
    /\ dealer_hand = <<>>
    /\ dealer_hidden = FALSE
    /\ is_doubling_down = FALSE
    /\ player_outcome = NoOutcome
    /\ dealer_outcome = NoOutcome
    /\ delta = 0
    /\ result = "none"
    /\ dd_asked = 0
    /\ prompts = 0
    /\ prompt_errs = 0
    /\ player_turns = <<>>
    /\ dealer_turns = <<>>
    /\ last_outcome = NoOutcome
    /\ replaced = FALSE
    /\ shuffled \in Shuffles
    /\ winnings = initial_winnings
    /\ donated = FALSE
    /\ FnIdle

\* a plausible slip: the balance is floored at zero (.max(0.))
new_winnings_floor_zero(w, change) ==
    round_decimal(IF w + change > 0 THEN w + change ELSE 0, 1)

\* main(), line 117: round_decimal((winnings + change).max(0.01), 2)
new_winnings(w, change) ==
    round_decimal(IF w + change > MIN_WINNINGS THEN w + change
                  ELSE MIN_WINNINGS, 1)

\* main(), lines 106-108: cent_pred and winnings_pred on the amount typed,
\* x in 1/InputsPerCent cents, w the balance in cents
bet_accepted(x, w) ==
    /\ x >= MIN_BET * InputsPerCent
    /\ x <= w * InputsPerCent

\* SpecShoe: a player who bets one cent, and leaves when the balance has
\* moved more than MaxSwing cents
shoe_inputs ==
    IF /\ winnings - initial_winnings <= MaxSwing
       /\ initial_winnings - winnings <= MaxSwing
    THEN {MIN_BET * InputsPerCent}
    ELSE {}

\* SpecBank: a player who types too little, the least bet, a little more
\* than a cent, a little less than the balance, the balance, or too much,
\* and leaves when MaxBankDealt cards are dealt
bank_inputs ==
    IF dealt_count < MaxBankDealt
    THEN {MIN_BET * InputsPerCent - 1,
          MIN_BET * InputsPerCent,
          MIN_BET * InputsPerCent + (InputsPerCent \div 2) - 1,
          winnings * InputsPerCent - ((InputsPerCent \div 2) - 1),
          winnings * InputsPerCent,
          winnings * InputsPerCent + (InputsPerCent \div 2)}
    ELSE {}

\* main(), lines 89-111: the replacement check, the bet, the call of play();
\* inputs are the amounts the player may type
RoundStart(inputs) ==
    /\ pc = "main_top"
    /\ IF should_replace(dealt_count, undealt_count(deck))
       THEN /\ deck' = make_decks
            /\ dealt_count' = 0
            /\ shuffled' \in Shuffles
            /\ replaced' = TRUE
       ELSE /\ replaced' = FALSE
            /\ UNCHANGED <<deck, dealt_count, shuffled>>
    /\ \E x \in inputs :
         /\ bet_accepted(x, winnings)
         /\ bet' = round_decimal(x, InputsPerCent)
    /\ pc' = "deal_dealer"
    /\ UNCHANGED <<player_hand, dealer_hand, dealer_hidden, is_doubling_down,
                   player_outcome, dealer_outcome, delta, result, dd_asked,
                   prompts, prompt_errs, player_turns, dealer_turns,
                   last_outcome, winnings, donated>>
    /\ UNCHANGED fn_vars

\* main(), lines 112-118: play() returned and its locals are gone, the
\* balance is updated, a key is awaited and the loop starts over
RoundEnd ==
    /\ pc = "done"
    /\ pc' = "main_top"
    /\ player_hand' = <<>>
    /\ dealer_hand' = <<>>
    /\ dealer_hidden' = FALSE
    /\ is_doubling_down' = FALSE
    /\ player_outcome' = NoOutcome
    /\ dealer_outcome' = NoOutcome
    /\ delta' = 0
    /\ result' = "none"
    /\ dd_asked' = 0
    /\ prompts' = 0
    /\ prompt_errs' = 0
    /\ player_turns' = <<>>
    /\ dealer_turns' = <<>>
    /\ last_outcome' = NoOutcome
    /\ bet' = 1
    /\ donated' = (winnings + delta < MIN_WINNINGS)
    /\ winnings' = new_winnings(winnings, delta)
    /\ UNCHANGED <<deck, dealt_count, replaced, shuffled>>
    /\ UNCHANGED fn_vars

NextShoe ==
    \/ RoundStart(shoe_inputs)
    \/ DealDealer(shoe_faces)
    \/ DealPlayer(shoe_faces)
    \/ CheckBlackjacks
    \/ ConfirmDoubleDown
    \/ DoubleDownHit(shoe_faces)
    \/ DoubleDownStand
    \/ PromptPlayerErr
    \/ PlayerTurn(shoe_faces)
    \/ AfterPlayerTurn
    \/ DealerTurn(shoe_faces)
    \/ Settle
    \/ RoundEnd

\* main(): round after round from one shoe
SpecShoe == InitShoe /\ [][NextShoe]_vars

NextBank ==
    \/ RoundStart(bank_inputs)
    \/ DealDealer(shoe_faces)
    \/ DealPlayer(shoe_faces)
    \/ CheckBlackjacks
    \/ ConfirmDoubleDown
    \/ DoubleDownHit(shoe_faces)
    \/ DoubleDownStand
    \/ PromptPlayerErr
    \/ PlayerTurn(shoe_faces)
    \/ AfterPlayerTurn
    \/ DealerTurn(shoe_faces)
    \/ Settle
    \/ RoundEnd

\* main(): the balance over the first rounds, the bets at its edges
SpecBank == InitShoe /\ [][NextBank]_vars

\* play() entered with a bet and a shoe fresh from a shuffle
InitFair ==
    /\ pc = "deal_dealer"
    /\ deck = make_decks
    /\ dealt_count = 0
    /\ bet \in Bets
    /\ player_hand = <<>>
    /\ dealer_hand = <<>>
    /\ dealer_hidden = FALSE
    /\ is_doubling_down = FALSE
    /\ player_outcome = NoOutcome
    /\ dealer_outcome = NoOutcome
    /\ delta = 0
    /\ result = "none"
    /\ dd_asked = 0
    /\ prompts = 0
    /\ prompt_errs = 0
    /\ player_turns = <<>>
    /\ dealer_turns = <<>>
    /\ last_outcome = NoOutcome
    /\ replaced = FALSE
    /\ shuffled \in Shuffles
    /\ winnings = initial_winnings
    /\ donated = FALSE
    /\ FnIdle

\* play(), the cards coming in the order of the shuffle
NextFair ==
    \/ DealDealer(shoe_faces)
    \/ DealPlayer(shoe_faces)
    \/ CheckBlackjacks
    \/ ConfirmDoubleDown
    \/ DoubleDownHit(shoe_faces)
    \/ DoubleDownStand
    \/ PromptPlayerErr
    \/ PlayerTurn(shoe_faces)
    \/ AfterPlayerTurn
    \/ DealerTurn(shoe_faces)
    \/ Settle

\* play() keeps running: the terminal answers, the loops take their next pass
SpecFair == InitFair /\ [][NextFair]_vars /\ WF_vars(NextFair)


\* ------------------------------------------------------------------------
\* The pure functions on their own
\* ------------------------------------------------------------------------
\* SpecVal: a hand grows card by card and is valued after every card
InitVal ==
    /\ RoundIdle
    /\ eval_hand = <<>>
    /\ eval_sum = hand_val(<<>>)
    /\ eval_outcome = get_outcome(<<>>)
    /\ score_to_beat = 0
    /\ decision = "None"
    /\ decision_main = "None"
    /\ ox = NoOutcome
    /\ oy = NoOutcome
    /\ oz = NoOutcome
    /\ ord = NoOrd

\* hand.push_card(card); hand_val(&hand); get_outcome(&hand)
PushCard ==
    /\ Len(eval_hand) < MaxHandLen
    /\ \E f \in Face :
         /\ eval_hand' = Append(eval_hand, f)
         /\ eval_sum' = hand_val(eval_hand')
         /\ eval_outcome' = get_outcome(eval_hand')
    /\ UNCHANGED <<score_to_beat, decision, decision_main, ox, oy, oz, ord>>
    /\ UNCHANGED round_vars

NextVal == PushCard

SpecVal == InitVal /\ [][NextVal]_vars

\* SpecDealer: a dealer's hand is built, then both dealer policies are asked
PushDealerCard ==
    /\ decision = "None"
    /\ Len(eval_hand) < MaxDealerLen
    /\ \E f \in Face :
         /\ eval_hand' = Append(eval_hand, f)
         /\ eval_sum' = hand_val(eval_hand')
         /\ eval_outcome' = get_outcome(eval_hand')
    /\ UNCHANGED <<score_to_beat, decision, decision_main, ox, oy, oz, ord>>
    /\ UNCHANGED round_vars

\* prompt_dealer(&hand, score_to_beat) of lib.rs and prompt_dealer(&hand) of
\* main.rs on the same hand
AskDealer ==
    /\ decision = "None"
    /\ \E s \in 0..BUST_THRESHOLD :
         /\ score_to_beat' = s
         /\ decision' = lib_prompt_dealer(eval_hand, s)
         /\ decision_main' = prompt_dealer(eval_hand)
    /\ UNCHANGED <<eval_hand, eval_sum, eval_outcome, ox, oy, oz, ord>>
    /\ UNCHANGED round_vars

NextDealer ==
    \/ PushDealerCard
    \/ AskDealer

SpecDealer == InitVal /\ [][NextDealer]_vars

\* SpecOrd: three Outcomes are compared with one another
InitOrd ==
    /\ RoundIdle
    /\ eval_hand = <<>>
    /\ eval_sum = 0
    /\ eval_outcome = NoOutcome
    /\ score_to_beat = 0
    /\ decision = "None"
    /\ decision_main = "None"
    /\ ox \in Outcomes
    /\ oy \in Outcomes
    /\ oz \in Outcomes
    /\ ord = NoOrd

\* x.cmp(&y) for each pair of the three
Compare ==
    /\ ord = NoOrd
    /\ ord' = [xx |-> cmp(ox, ox), xy |-> cmp(ox, oy), yx |-> cmp(oy, ox),
               yz |-> cmp(oy, oz), zy |-> cmp(oz, oy), xz |-> cmp(ox, oz),
               zx |-> cmp(oz, ox)]
    /\ UNCHANGED <<eval_hand, eval_sum, eval_outcome, score_to_beat, decision,
                   decision_main, ox, oy, oz>>
    /\ UNCHANGED round_vars

NextOrd == Compare

SpecOrd == InitOrd /\ [][NextOrd]_vars


\* ------------------------------------------------------------------------
\* What the claims speak of
\* ------------------------------------------------------------------------
TenValued == {"Ten", "Jack", "Queen", "King"}

\* the two cards first dealt to h are an ace and a ten-valued card: 21
Natural(h) ==
    /\ Len(h) >= 2
    /\ \/ h[1] = "Ace" /\ h[2] \in TenValued
       \/ h[2] = "Ace" /\ h[1] \in TenValued

\* n / d rounded to the nearest whole number, n >= 0, d > 0
Nearest(n, d) == (2 * n + d) \div (2 * d)

\* round(wager x 0.6 x m, 2) in cents
Payout(wager, m) == Nearest(6 * wager * m, 10)

\* 2 when the player doubled down, else 1
Mult == IF is_doubling_down THEN 2 ELSE 1

\* the natural check is behind the round
PastNaturalCheck ==
    pc \notin {"idle", "deal_dealer", "deal_player", "check_blackjacks"}

\* nothing happened after the initial deal
OnlyInitialDeal ==
    /\ Len(player_hand) = 2
    /\ Len(dealer_hand) = 2
    /\ dealt_count = 4
    /\ dd_asked = 0
    /\ prompts = 0
    /\ prompt_errs = 0
    /\ player_turns = <<>>
    /\ dealer_turns = <<>>

\* C1: after the initial deal the naturals are settled first: both hands 21
\* gives delta 0, only the player's gives +round(wager x 0.6, 2), only the
\* dealer's gives -wager, and then the round is over with no further card,
\* no double-down question and no hit/stand decision; with no natural the
\* round goes on to the player's turn.
C1_NaturalsSettledFirst ==
    PastNaturalCheck =>
        /\ (Natural(player_hand) /\ Natural(dealer_hand)) =>
              (pc = "done" /\ delta = 0 /\ OnlyInitialDeal)
        /\ (Natural(player_hand) /\ ~Natural(dealer_hand)) =>
              (pc = "done" /\ delta = Payout(bet, 1) /\ OnlyInitialDeal)
        /\ (~Natural(player_hand) /\ Natural(dealer_hand)) =>
              (pc = "done" /\ delta = -bet /\ OnlyInitialDeal)
        /\ (~Natural(player_hand) /\ ~Natural(dealer_hand)) =>
              /\ result \notin {"both_blackjack", "player_blackjack",
                                "dealer_blackjack"}
              /\ pc = "confirm" \/ dd_asked = 1

\* C1's case: both hands were dealt a natural and the round ended in a push
C1_Witness ==
    /\ pc = "done"
    /\ Natural(player_hand)
    /\ Natural(dealer_hand)
    /\ result = "both_blackjack"

\* the round reached the comparison of the two outcomes
AtShowdown ==
    /\ pc = "done"
    /\ player_outcome.kind = "Holding"
    /\ dealer_outcome.kind = "Holding"

\* C2: at the showdown the delta is decided by the order of the two final
\* outcomes alone: player greater +round(wager x 0.6 x multiplier, 2), player
\* less -wager x multiplier, equal 0.
C2_ShowdownByOrder ==
    AtShowdown =>
        /\ player_outcome.total > dealer_outcome.total =>
              (delta = Payout(bet, Mult) /\ result = "won")
        /\ player_outcome.total < dealer_outcome.total =>
              (delta = -(bet * Mult) /\ result = "lost")
        /\ player_outcome.total = dealer_outcome.total =>
              (delta = 0 /\ result = "draw")

\* C2's case: a doubled round lost at the showdown
C2_Witness ==
    /\ AtShowdown
    /\ is_doubling_down
    /\ player_outcome.total < dealer_outcome.total
    /\ result = "lost"


\* the dealer's hand as it was before the k-th decision applied to it: the
\* two cards of the deal and one card for each earlier decision, all hits
DealerHandBefore(k) == SubSeq(dealer_hand, 1, k + 1)

\* C3: in the dealer's turn the dealer never takes a Hit once the dealer's
\* total exceeds the player's final total, also below 18 (dealer at 17
\* against a player holding 15 stands).
C3_DealerNeverHitsAhead ==
    \A k \in 1..Len(dealer_turns) :
        dealer_turns[k] = "Hit" =>
            hand_val(DealerHandBefore(k)) <= player_outcome.total

PlayerTurnEnded == pc \in {"player_done", "dealer_turn", "dealer_done", "done"}

\* C5: after a confirmed double-down the player's turn is one forced Hit and
\* then one forced Stand, the Stand skipped when the Hit busts; the hit/stand
\* protocol is never consulted and the hand holds exactly 3 cards at the end
\* of the turn.
C5_DoubleDownTurn ==
    is_doubling_down =>
        /\ prompts = 0
        /\ prompt_errs = 0
        /\ pc = "double_hit" => (player_turns = <<>> /\ Len(player_hand) = 2)
        /\ pc = "double_stand" =>
              (player_turns = <<"Hit">> /\ Len(player_hand) = 3)
        /\ PlayerTurnEnded =>
              /\ Len(player_hand) = 3
              /\ player_turns = IF player_outcome = Bust THEN <<"Hit">>
                                ELSE <<"Hit", "Stand">>

\* C5's case: a doubled turn that ended with the forced Stand
C5_Witness ==
    /\ is_doubling_down
    /\ PlayerTurnEnded
    /\ player_turns = <<"Hit", "Stand">>
    /\ Len(player_hand) = 3


\* the round is over and ended after the natural check, in one of the four
\* ways a double-down can end
EndedAfterNaturalCheck ==
    /\ pc = "done"
    /\ result \in {"player_bust", "dealer_bust", "won", "lost"}

\* the delta the same ending returns without double-down
UndoubledDelta ==
    IF result \in {"player_bust", "lost"} THEN -bet ELSE Payout(bet, 1)

\* C6 as stated: for every wager of whole cents and every ending after the
\* natural check, the delta with double-down is exactly 2 times the delta
\* the same ending returns without double-down.
C6_DoubleIsTwice ==
    (EndedAfterNaturalCheck /\ is_doubling_down) =>
        delta = 2 * UndoubledDelta

\* C6 as amended: with double-down a losing ending returns exactly 2 times
\* the undoubled delta; a winning ending returns round(wager x 0.6 x 2, 2),
\* which is 2 times the undoubled delta when the wager in cents is 0, 2 or 3
\* modulo 5, one cent less when it is 1 and one cent more when it is 4.
C6_DoubleAmended ==
    (EndedAfterNaturalCheck /\ is_doubling_down) =>
        /\ result \in {"player_bust", "lost"} => delta = 2 * UndoubledDelta
        /\ result \in {"dealer_bust", "won"} =>
              /\ delta = Nearest(12 * bet, 10)
              /\ bet % 5 \in {0, 2, 3} => delta = 2 * UndoubledDelta
              /\ bet % 5 = 1 => delta = 2 * UndoubledDelta - 1
              /\ bet % 5 = 4 => delta = 2 * UndoubledDelta + 1

\* C6's case: a doubled win on a wager of 4 cents pays 5, not 2 x 2
C6_Witness ==
    /\ EndedAfterNaturalCheck
    /\ is_doubling_down
    /\ result = "dealer_bust"
    /\ bet = 4
    /\ delta = 5

\* C7: a player's final outcome of Bust ends the round at once with delta
\* -wager x multiplier: the dealer takes no turn, the dealer's hand keeps its
\* 2 initial cards and no further card leaves the shoe.
C7_PlayerBustEndsRound ==
    player_outcome = Bust =>
        /\ pc \in {"player_done", "done"}
        /\ dealer_turns = <<>>
        /\ Len(dealer_hand) = 2
        /\ dealt_count = 2 + Len(player_hand)
        /\ pc = "done" => (delta = -(bet * Mult) /\ result = "player_bust")

\* C7's case: a doubled round ended by the player's bust
C7_Witness ==
    /\ pc = "done"
    /\ player_outcome = Bust
    /\ is_doubling_down
    /\ delta = -(2 * bet)

\* C8: if the player did not bust and the dealer's turn ends in Bust, the
\* player wins +round(wager x 0.6 x multiplier, 2), whatever the player's
\* total is.
C8_DealerBustWins ==
    (pc = "done" /\ dealer_outcome = Bust) =>
        /\ player_outcome.kind = "Holding"
        /\ delta = Payout(bet, Mult)
        /\ result = "dealer_bust"

\* C8's case: the dealer busts against a doubled player holding less than 18
C8_Witness ==
    /\ pc = "done"
    /\ dealer_outcome = Bust
    /\ is_doubling_down
    /\ player_outcome.kind = "Holding"
    /\ player_outcome.total < 18

\* what a card counts with every ace as 1
HardPoints(face) ==
    CASE face = "Ace" -> 1
      [] face \in TenValued -> 10
      [] face = "Nine" -> 9
      [] face = "Eight" -> 8
      [] face = "Seven" -> 7
      [] face = "Six" -> 6
      [] face = "Five" -> 5
      [] face = "Four" -> 4
      [] face = "Three" -> 3
      [] face = "Two" -> 2

RECURSIVE HardTotal(_, _)
HardTotal(h, n) == IF n = 0 THEN 0 ELSE HardTotal(h, n - 1) + HardPoints(h[n])

\* the best blackjack total of h: the largest total not above 21 with each
\* ace 1 or 11 (two aces at 11 are 22, so at most one ace counts 11), or the
\* all-aces-as-1 total when every choice exceeds 21
BestTotal(h) ==
    LET hard == HardTotal(h, Len(h))
    IN IF (\E i \in 1..Len(h) : h[i] = "Ace") /\ hard + 10 <= 21
       THEN hard + 10 ELSE hard

\* h with its cards in the order p, a permutation of 1..Len(h)
Reordered(h, p) == [i \in 1..Len(h) |-> h[p[i]]]

\* C9: for every hand hand_val returns the same total for every ordering of
\* the hand's cards, and that total is the best blackjack total.
C9_OrderIndependentBest ==
    /\ \A p \in Permutations(1..Len(eval_hand)) :
          hand_val(Reordered(eval_hand, p)) = eval_sum
    /\ eval_sum = BestTotal(eval_hand)

\* what the claim lets the card after a running total of running count
CardPoints(face, running) ==
    CASE face \in TenValued -> 10
      [] face = "Ace" -> IF running > 10 THEN 1 ELSE 11
      [] OTHER -> HardPoints(face)

\* the claim's left-to-right running total of the first n cards of h
RECURSIVE RunningTotal(_, _)
RunningTotal(h, n) ==
    IF n = 0 THEN 0
    ELSE LET before == RunningTotal(h, n - 1)
         IN before + CardPoints(h[n], before)

\* C10: hand_val folds left to right, 10 for Ten/Jack/Queen/King, the numeral
\* for Two..Nine, 11 for an Ace unless the running total before it exceeds
\* 10, then 1; get_outcome is Bust iff the total is > 21, else Holding(total);
\* [Ace, King] = 21, [Ace, Ace, Nine] = 21, [Ace, Ace, Ace, Eight] = 21,
\* [King, Queen, Two] = 22 and Bust; a Holding of a non-empty hand has
\* 1 <= total <= 21.
C10_FoldAndOutcome ==
    /\ eval_sum = RunningTotal(eval_hand, Len(eval_hand))
    /\ eval_outcome = IF eval_sum > 21 THEN Bust ELSE Holding(eval_sum)
    /\ eval_hand = <<"Ace", "King">> => eval_sum = 21
    /\ eval_hand = <<"Ace", "Ace", "Nine">> => eval_sum = 21
    /\ eval_hand = <<"Ace", "Ace", "Ace", "Eight">> => eval_sum = 21
    /\ eval_hand = <<"King", "Queen", "Two">> =>
          (eval_sum = 22 /\ eval_outcome = Bust)
    /\ (eval_hand # <<>> /\ eval_outcome.kind = "Holding") =>
          (1 <= eval_outcome.total /\ eval_outcome.total <= 21)

\* C10's case: three aces and an eight are valued 21 and held
C10_Witness ==
    /\ eval_hand = <<"Ace", "Ace", "Ace", "Eight">>
    /\ eval_sum = 21
    /\ eval_outcome = Holding(21)

\* the Ordering with its sides exchanged
Reverse(o) ==
    CASE o = "Less" -> "Greater"
      [] o = "Greater" -> "Less"
      [] OTHER -> o

\* at most: Less or Equal
AtMost(o) == o \in {"Less", "Equal"}

\* C11: the comparison of Outcomes is a total order: Bust is below every
\* Holding and equal to Bust, Holding(a) is below Holding(b) iff a < b; it is
\* reflexive, cmp(x,y) is the reverse of cmp(y,x), it is transitive, and
\* cmp(x,y) is Equal iff x = y.
C11_TotalOrder ==
    ord # NoOrd =>
        /\ ord.xx = "Equal"
        /\ ord.xy \in {"Less", "Equal", "Greater"}
        /\ ord.xy = Reverse(ord.yx)
        /\ ord.yz = Reverse(ord.zy)
        /\ ord.xz = Reverse(ord.zx)
        /\ (ord.xy = "Equal") <=> (ox = oy)
        /\ (AtMost(ord.xy) /\ AtMost(ord.yz)) =>
              /\ AtMost(ord.xz)
              /\ (ord.xz = "Equal") <=> (ord.xy = "Equal" /\ ord.yz = "Equal")
        /\ (ox = Bust /\ oy.kind = "Holding") => ord.xy = "Less"
        /\ (ox = Bust /\ oy = Bust) => ord.xy = "Equal"
        /\ (ox.kind = "Holding" /\ oy.kind = "Holding") =>
              ((ord.xy = "Less") <=> (ox.total < oy.total))

\* Bust, a Holding and a higher Holding have been compared
C11_Witness ==
    /\ ord # NoOrd
    /\ ox = Bust
    /\ oy = Holding(0)
    /\ oz = Holding(BUST_THRESHOLD)
    /\ ord.xy = "Less"
    /\ ord.yz = "Less"
    /\ ord.xz = "Less"

\* the round ended at the natural check
EndedByNatural ==
    result \in {"both_blackjack", "player_blackjack", "dealer_blackjack"}

\* C14 as stated: in every round, however it ends, the player is asked
\* exactly once whether to double down.
C14_AskedOncePerRound == pc = "done" => dd_asked = 1

\* C14, amended: the player is asked at most once in a round; exactly once in
\* every round that passes the natural check, before any decision is applied,
\* and never in a round that a natural ends.
C14_AskedOnceAmended ==
    /\ dd_asked <= 1
    /\ pc \in {"deal_dealer", "deal_player", "check_blackjacks", "confirm"} =>
          dd_asked = 0
    /\ pc \in {"double_hit", "double_stand", "hitting", "player_done",
                "dealer_turn", "dealer_done"} => dd_asked = 1
    /\ dd_asked = 0 => (player_turns = <<>> /\ prompts = 0)
    /\ pc = "done" => ((dd_asked = 1) <=> ~EndedByNatural)
    /\ pc = "done" => ((dd_asked = 0) <=> EndedByNatural)

\* C14's cases: a round played to the showdown after one question
C14_Witness ==
    /\ pc = "done"
    /\ dd_asked = 1
    /\ result = "won"
    /\ Len(player_turns) >= 2

\* C15: a failed read of the player's decision is not propagated into the
\* round: the step leaves the round at the same request, and both hands, the
\* shoe and the rest of the round's state are unchanged.
C15_RetryKeepsRound ==
    [][prompt_errs' # prompt_errs =>
         /\ pc = "hitting"
         /\ pc' = "hitting"
         /\ prompt_errs' = prompt_errs + 1
         /\ UNCHANGED <<deck, dealt_count, bet, player_hand, dealer_hand,
                        dealer_hidden, is_doubling_down, player_outcome,
                        dealer_outcome, delta, result, dd_asked, prompts,
                        player_turns, dealer_turns, last_outcome>>]_vars

\* C15's case: a read failed, the request was repeated and answered, and the
\* round was played to its end
C15_Witness ==
    /\ prompt_errs > 0
    /\ prompts > 0
    /\ pc = "done"
    /\ result \in {"won", "lost", "draw"}

\* C16: the delta is rounded where it is computed: a win pays the whole
\* number of cents nearest to 0.6 x wager x multiplier, a loss the wager x
\* multiplier, and a wager of 10.00 won without double-down yields 6.00.
C16_RoundedAtComputation ==
    pc = "done" =>
        /\ delta \in Int
        /\ result \in {"won", "dealer_bust"} =>
              /\ 10 * delta - 6 * bet * Mult <= 5
              /\ 6 * bet * Mult - 10 * delta <= 5
        /\ result = "player_blackjack" =>
              /\ 10 * delta - 6 * bet <= 5
              /\ 6 * bet - 10 * delta <= 5
        /\ result \in {"lost", "player_bust"} => delta = -(bet * Mult)
        /\ result = "dealer_blackjack" => delta = -bet
        /\ result \in {"draw", "both_blackjack"} => delta = 0
        /\ (bet = 1000 /\ ~is_doubling_down
              /\ result \in {"won", "dealer_bust", "player_blackjack"}) =>
              delta = 600

\* C16's case: 10.00 won at the showdown without double-down
C16_Witness ==
    /\ pc = "done"
    /\ bet = 1000
    /\ ~is_doubling_down
    /\ result = "won"
    /\ delta = 600

\* the round reached the comparison of the two outcomes (play(), line 269)
ShowdownReached ==
    \/ pc = "dealer_done" /\ dealer_outcome # Bust
    \/ result \in {"draw", "won", "lost"}

\* C19: when play() reaches the showdown comparison neither outcome is
\* Bust: the player's is Holding(p) with p <= 21, the dealer's Holding(d)
\* with 18 <= d <= 21.
C19_ShowdownOutcomes ==
    ShowdownReached =>
        /\ player_outcome.kind = "Holding"
        /\ player_outcome.total = hand_val(player_hand)
        /\ player_outcome.total <= 21
        /\ dealer_outcome.kind = "Holding"
        /\ dealer_outcome.total = hand_val(dealer_hand)
        /\ dealer_outcome.total >= 18
        /\ dealer_outcome.total <= 21

\* C19's case: a showdown settled with the dealer standing on exactly 18
C19_Witness ==
    /\ pc = "done"
    /\ result = "lost"
    /\ dealer_outcome = Holding(18)
    /\ player_outcome.kind = "Holding"

\* neither hand was a natural
NoNatural == ~Natural(player_hand) /\ ~Natural(dealer_hand)

\* the player wins: natural, dealer bust or higher total at the showdown
PlayerWins ==
    \/ Natural(player_hand) /\ ~Natural(dealer_hand)
    \/ /\ NoNatural
       /\ player_outcome.kind = "Holding"
       /\ \/ dealer_outcome = Bust
          \/ /\ dealer_outcome.kind = "Holding"
             /\ player_outcome.total > dealer_outcome.total

\* the player loses: dealer natural, player bust or lower total
PlayerLoses ==
    \/ Natural(dealer_hand) /\ ~Natural(player_hand)
    \/ /\ NoNatural
       /\ \/ player_outcome = Bust
          \/ /\ player_outcome.kind = "Holding"
             /\ dealer_outcome.kind = "Holding"
             /\ player_outcome.total < dealer_outcome.total

\* a push: two naturals or equal totals at the showdown
Push ==
    \/ Natural(player_hand) /\ Natural(dealer_hand)
    \/ /\ NoNatural
       /\ player_outcome.kind = "Holding"
       /\ dealer_outcome.kind = "Holding"
       /\ player_outcome.total = dealer_outcome.total

\* C20: for every wager of at least a cent the sign of the delta matches the
\* result of the round: positive iff the player wins, negative iff the player
\* loses, zero iff the round is a push; a win never pays zero.
C20_SignMatchesResult ==
    pc = "done" =>
        /\ bet >= 1
        /\ PlayerWins \/ PlayerLoses \/ Push
        /\ (delta > 0) <=> PlayerWins
        /\ (delta < 0) <=> PlayerLoses
        /\ (delta = 0) <=> Push

\* C20's case: the smallest wager won, paid one cent
C20_Witness ==
    /\ pc = "done"
    /\ bet = 1
    /\ PlayerWins
    /\ delta = 1

\* the last element of a non-empty sequence
Last(q) == q[Len(q)]

\* the step takes exactly one card, of face f, from the shoe
TakesCard(f) ==
    /\ deck[f] > 0
    /\ deck' = [deck EXCEPT ![f] = deck[f] - 1]
    /\ undealt_count(deck') = undealt_count(deck) - 1
    /\ dealt_count' = dealt_count + 1

\* what a step that applied decision dec to the hand h may change
TurnFrame(dec, h, h_after) ==
    /\ dec = "Hit" => \E f \in Face : TakesCard(f) /\ h_after = Append(h, f)
    /\ dec = "Stand" => (h_after = h /\ UNCHANGED <<deck, dealt_count>>)
    /\ last_outcome' = get_outcome(h_after)

\* C17: a decision applied by simulate_turn changes only what it allows: a
\* Hit removes exactly one card from the shoe and appends it to the end of
\* the acting hand, the other hand untouched; a Stand changes neither hand
\* nor the shoe; the Outcome returned is get_outcome of the acting hand
\* after the step.
C17_TurnFrame ==
    [][/\ player_turns' # player_turns =>
            /\ player_turns' = Append(player_turns, Last(player_turns'))
            /\ TurnFrame(Last(player_turns'), player_hand, player_hand')
            /\ UNCHANGED <<dealer_hand, dealer_turns>>
       /\ dealer_turns' # dealer_turns =>
            /\ dealer_turns' = Append(dealer_turns, Last(dealer_turns'))
            /\ TurnFrame(Last(dealer_turns'), dealer_hand, dealer_hand')
            /\ UNCHANGED <<player_hand, player_turns>>
       /\ (player_turns' = player_turns /\ dealer_turns' = dealer_turns
             /\ pc \notin {"deal_dealer", "deal_player"}) =>
            UNCHANGED <<deck, dealt_count, player_hand, last_outcome>>]_vars

\* C17's case: both a Hit and a Stand were applied to each hand
C17_Witness ==
    /\ player_turns = <<"Hit", "Stand">>
    /\ dealer_turns = <<"Hit", "Stand">>
    /\ Len(player_hand) = 3
    /\ Len(dealer_hand) = 3
    /\ dealt_count = 6
    /\ last_outcome = get_outcome(dealer_hand)

\* every decision in q is a Hit
AllHits(q) == \A i \in 1..Len(q) : q[i] = "Hit"

\* q without its last element
Front(q) == SubSeq(q, 1, Len(q) - 1)

\* the player's turn without double-down: one request for each decision
\* applied, Hits until a Stand or a bust
AskThenApply ==
    (~is_doubling_down /\ dd_asked = 1) =>
        /\ prompts = Len(player_turns)
        /\ pc = "hitting" =>
              (AllHits(player_turns) /\ player_outcome = NoOutcome
                 /\ hand_val(player_hand) <= BUST_THRESHOLD)
        /\ pc # "hitting" =>
              /\ player_turns # <<>>
              /\ AllHits(Front(player_turns))
              /\ \/ Last(player_turns) = "Stand"
                 \/ player_outcome = Bust

\* the dealer's loop ended with the dealer standing or bust
DealerLoopEnded ==
    dealer_outcome # NoOutcome =>
        /\ AllHits(Front(dealer_turns))
        /\ \/ Last(dealer_turns) = "Stand"
           \/ dealer_outcome = Bust

\* C18: without double-down the player's turn repeats ask-then-apply until
\* a Stand or a bust; each Hit strictly increases the hand's total; the
\* dealer's loop ends with the dealer standing or bust; and, the decision
\* requests succeeding in the end, every round returns a delta.
C18_RoundTerminates ==
    /\ [][/\ (player_turns' # player_turns /\ Last(player_turns') = "Hit") =>
               hand_val(player_hand') > hand_val(player_hand)
          /\ (dealer_turns' # dealer_turns /\ Last(dealer_turns') = "Hit") =>
               hand_val(dealer_hand') > hand_val(dealer_hand)]_vars
    /\ [](AskThenApply /\ DealerLoopEnded)
    /\ <>(pc = "done" /\ result # "none")

\* C18's case: a player who always hit, and bust
C18_Witness ==
    /\ pc = "done"
    /\ ~is_doubling_down
    /\ Len(player_turns) >= 2
    /\ AllHits(player_turns)
    /\ player_outcome = Bust
    /\ result = "player_bust"

\* the cards of a shoe of num_decks decks
ShoeSize == num_decks * SUITS_PER_DECK * Cardinality(Face)

\* at least half of the shoe has been dealt
HalfDealt == 2 * dealt_count >= dealt_count + undealt_count(deck)

\* C12: before each round the shoe is replaced (reset and reshuffled) iff
\* dealt_count >= 0.5 x (dealt_count + undealt_count): (26, 26) replaces,
\* (25, 27) does not; so every round starts with strictly fewer than half of
\* the shoe's cards dealt.
C12_ReplacedAtHalf ==
    [][pc = "main_top" =>
         /\ should_replace(26, 26)
         /\ ~should_replace(25, 27)
         /\ replaced' <=> HalfDealt
         /\ replaced' =>
               (deck' = make_decks /\ dealt_count' = 0 /\ shuffled' \in Shuffles)
         /\ ~replaced' => UNCHANGED <<deck, dealt_count, shuffled>>
         /\ pc' = "deal_dealer"
         /\ 2 * dealt_count' < ShoeSize
         /\ undealt_count(deck') = ShoeSize - dealt_count']_vars

\* C12's case: a round begins with the shoe just replaced
C12_Witness ==
    /\ pc = "deal_dealer"
    /\ dealer_hand = <<>>
    /\ replaced
    /\ dealt_count = 0
    /\ undealt_count(deck) = ShoeSize

\* a round left exactly half of the shoe dealt: the next check replaces it
C12_ExactlyHalfAtCheck ==
    /\ pc = "main_top"
    /\ 2 * dealt_count = ShoeSize

\* a round left one card less than half dealt: the next check keeps the shoe
C12_JustBelowHalfAtCheck ==
    /\ pc = "main_top"
    /\ 2 * dealt_count = ShoeSize - 2

\* C13: over any sequence of rounds from a fresh 208-card shoe, the
\* replacement check run before every round, no deal (initial deal, player
\* hit, dealer hit) finds the shoe exhausted.
C13_ShoeNeverExhausted ==
    /\ pc # "panic"
    /\ undealt_count(deck) > 0
    /\ dealt_count + undealt_count(deck) = ShoeSize
    /\ pc \in {"deal_dealer", "deal_player", "double_hit", "hitting",
                "dealer_turn"} => ~hit_panics("Hit")

\* C13's case: a later round, begun without a replacement just short of half
\* the shoe, in which the player and the dealer both hit
C13_Witness ==
    /\ pc = "done"
    /\ ~replaced
    /\ 2 * dealt_count > ShoeSize
    /\ \E i \in 1..Len(player_turns) : player_turns[i] = "Hit"
    /\ \E i \in 1..Len(dealer_turns) : dealer_turns[i] = "Hit"

\* the round was doubled and lost, and twice the bet is more than the balance
DoubledLossBeyondBalance ==
    /\ pc = "done"
    /\ is_doubling_down
    /\ delta = -(2 * bet)
    /\ 2 * bet > winnings

\* C21: across the rounds of the game loop the balance is at least 0.01 at
\* the start of every round and every accepted bet is at least 0.01 and at
\* most the balance; when a loss, also a doubled one of 2 x bet, exceeds the
\* balance, the balance is set to 0.01 and not to zero or less.
C21_BalanceAndBets ==
    [][/\ winnings >= 1
       /\ winnings' >= 1
       /\ pc = "main_top" =>
            /\ bet' >= 1
            /\ bet' <= winnings
            /\ winnings' = winnings
       /\ pc \notin {"main_top", "done"} =>
            /\ bet' = bet
            /\ bet <= winnings
            /\ winnings' = winnings
       /\ pc = "done" =>
            /\ winnings + delta >= 1 =>
                  (winnings' = winnings + delta /\ ~donated')
            /\ winnings + delta < 1 => (winnings' = 1 /\ donated')
            /\ DoubledLossBeyondBalance => winnings' = 1]_vars

\* C21's case: a loss beyond the balance left one cent, and the next round
\* is played for that cent
C21_Witness ==
    /\ pc = "deal_dealer"
    /\ donated
    /\ winnings = 1
    /\ bet = 1

\* a doubled loss of the whole balance, about to be charged
C21_DoubledAllInLost ==
    /\ DoubledLossBeyondBalance
    /\ bet = winnings

\* a doubled loss at the floor: one cent bet, two cents lost, one cent kept
C21_DoubledLossAtFloor ==
    /\ DoubledLossBeyondBalance
    /\ winnings = 1
    /\ donated

====
